---- MODULE Spec2Model ----
(***************************************************************************)
(* HaaDB (haadb/haadb.py): a versioned key-value store kept in the custom  *)
(* JSON operations of one Hive account.  broadcast() encodes a value,      *)
(* optionally encrypts it, cuts it into chunks and appends one custom_json *)
(* operation per chunk; fetch() pages through the account history, folds   *)
(* the matching operations into per-timestamp buckets and reconstructs the *)
(* values; get_marker() computes a resume point for fetch.                 *)
(*                                                                         *)
(* Text is a sequence of character codes (ASCII).  The account history is  *)
(* the sequence numbers 0..lastSeq; hist holds the operations the model    *)
(* distinguishes, every other sequence number is an operation of another   *)
(* kind (a transfer, a vote, ...).                                         *)
(***************************************************************************)
EXTENDS Integers, Sequences, FiniteSets, TLC

\* ---------------------------------------------------------------- constants

\* page size of the history reads and step of the page boundary
PageSize == 1000
\* number of items get_marker asks for
MarkerPage == 10
\* constructor: accepted range of `limit`, and the overhead taken off it
MinLimit == 1024
MaxLimit == 4096
Overhead == 512

\* ------------------------------------------------------------------- bounds

\* operations on the ledger per behaviour: broadcasts and the activity of
\* unrelated applications
MaxOps == 2
\* blocks of PageSize operations that are not custom_json, per behaviour
MaxFills == 1
\* the clock runs from 1 to MaxTime (seconds)
MaxTime == 2
\* failing history reads per fetch call
MaxFails == 1
\* get_marker / start validation: history tops 0..MaxTop, starts 0..MaxStart
MaxTop == 3100
MaxStart == 2100

\* ------------------------------------------------------------------ helpers

Min(a, b) == IF a < b THEN a ELSE b
Max(a, b) == IF a > b THEN a ELSE b
SetMax(S) == CHOOSE x \in S : \A y \in S : y <= x

\* Python's seq[a:b] for 0 <= a <= b
PySlice(seq, a, b) == SubSeq(seq, a + 1, Min(b, Len(seq)))

\* ------------------------------------------------------------------- values

\* A Python value: t is the name of its type, n its number (int; float in
\* tenths; bool as 0/1), s its items (the characters of a str, the elements
\* of a list, the bytes an object's __bytes__ returns).
StrV(s) == [t |-> "str", n |-> 0, s |-> s]
IntV(n) == [t |-> "int", n |-> n, s |-> <<>>]
FloatV(tenths) == [t |-> "float", n |-> tenths, s |-> <<>>]
BoolV(b) == [t |-> "bool", n |-> b, s |-> <<>>]
ListV(s) == [t |-> "list", n |-> 0, s |-> s]
ObjectV(b) == [t |-> "object", n |-> 0, s |-> b]

\* the outcome of an expression that may raise
Ok(v) == [ok |-> TRUE, val |-> v]
Err == [ok |-> FALSE, val |-> StrV(<<>>)]

\* ------------------------------------------------------------------- codec

IsDigit(c) == c >= 48 /\ c <= 57
IsHex(c) == IsDigit(c) \/ (c >= 97 /\ c <= 102) \/ (c >= 65 /\ c <= 70)
HexChar(n) == IF n < 10 THEN 48 + n ELSE 87 + n
HexVal(c) == IF IsDigit(c) THEN c - 48 ELSE IF c >= 97 THEN c - 87 ELSE c - 55

\* str(n) for n >= 0
RECURSIVE Digits(_)
Digits(n) == IF n < 10 THEN <<48 + n>> ELSE Digits(n \div 10) \o <<48 + (n % 10)>>

\* ", ".join of the elements of a list of naturals
RECURSIVE ListBody(_)
ListBody(s) ==
    IF s = <<>> THEN <<>>
    ELSE IF Len(s) = 1 THEN Digits(s[1])
    ELSE Digits(s[1]) \o <<44, 32>> \o ListBody(Tail(s))

\* str(obj)
PyStr(v) ==
    CASE v.t = "str" -> v.s
      [] v.t = "int" -> IF v.n < 0 THEN <<45>> \o Digits(0 - v.n) ELSE Digits(v.n)
      [] v.t = "float" -> Digits(v.n \div 10) \o <<46>> \o Digits(v.n % 10)
      [] v.t = "bool" -> IF v.n = 1 THEN <<84, 114, 117, 101>> ELSE <<70, 97, 108, 115, 101>>
      [] v.t = "list" -> <<91>> \o ListBody(v.s) \o <<93>>
      [] OTHER -> <<>>

\* _get_dtype: "object" for anything with __bytes__, else the type's name
GetDtype(v) == v.t

\* _get_bytes
GetBytes(v) == IF v.t = "object" THEN v.s ELSE PyStr(v)

\* isinstance(data, (str, int, float)); bool is a subclass of int
IsPlain(v) == v.t \in {"str", "int", "float", "bool"}

\* binascii.hexlify
Hexlify(b) ==
    [i \in 1..(2 * Len(b)) |->
        IF i % 2 = 1 THEN HexChar(b[(i + 1) \div 2] \div 16)
        ELSE HexChar(b[i \div 2] % 16)]

\* binascii.unhexlify: raises on an odd length or a character that is no hex digit
UnhexOk(d) == Len(d) % 2 = 0 /\ \A i \in 1..Len(d) : IsHex(d[i])
Unhexlify(d) == [i \in 1..(Len(d) \div 2) |-> 16 * HexVal(d[2 * i - 1]) + HexVal(d[2 * i])]

\* value of a non-empty string of digits
RECURSIVE DigitsVal(_)
DigitsVal(d) ==
    IF Len(d) = 1 THEN d[1] - 48
    ELSE 10 * DigitsVal(SubSeq(d, 1, Len(d) - 1)) + (d[Len(d)] - 48)

AllDigits(d) == Len(d) >= 1 /\ \A i \in 1..Len(d) : IsDigit(d[i])

\* int(text): an optional sign and digits (of the forms Python accepts, the
\* ones the texts of this model can take)
ParseInt(d) ==
    IF AllDigits(d) THEN Ok(IntV(DigitsVal(d)))
    ELSE IF Len(d) >= 2 /\ d[1] = 45 /\ AllDigits(Tail(d)) THEN Ok(IntV(0 - DigitsVal(Tail(d))))
    ELSE Err

\* float(text): digits, or digits "." digit
ParseFloat(d) ==
    IF AllDigits(d) THEN Ok(FloatV(10 * DigitsVal(d)))
    ELSE IF Len(d) >= 3 /\ d[Len(d) - 1] = 46 /\ IsDigit(d[Len(d)])
            /\ AllDigits(SubSeq(d, 1, Len(d) - 2))
         THEN Ok(FloatV(10 * DigitsVal(SubSeq(d, 1, Len(d) - 2)) + (d[Len(d)] - 48)))
    ELSE Err

\* the text between the brackets of a list of single digits: "d, d, d"
ElemsOk(b) ==
    /\ Len(b) % 3 = 1
    /\ \A i \in 1..Len(b) :
          CASE i % 3 = 1 -> IsDigit(b[i])
            [] i % 3 = 2 -> b[i] = 44
            [] OTHER -> b[i] = 32
Elems(b) == [i \in 1..((Len(b) + 2) \div 3) |-> b[3 * i - 2] - 48]

\* ast.literal_eval on the literals this model writes: True, False, an
\* integer, a list of single digits
LiteralEval(d) ==
    IF d = <<84, 114, 117, 101>> THEN Ok(BoolV(1))
    ELSE IF d = <<70, 97, 108, 115, 101>> THEN Ok(BoolV(0))
    ELSE IF ParseInt(d).ok THEN ParseInt(d)
    ELSE IF Len(d) >= 2 /\ d[1] = 91 /\ d[Len(d)] = 93
         THEN IF Len(d) = 2 THEN Ok(ListV(<<>>))
              ELSE IF ElemsOk(SubSeq(d, 2, Len(d) - 1))
                   THEN Ok(ListV(Elems(SubSeq(d, 2, Len(d) - 1))))
                   ELSE Err
    ELSE Err

\* ------------------------------------------------------------------ crypto

\* Fernet, as a keyed authenticated cipher: a token is a header naming the
\* key and the length of the plaintext, followed by the plaintext shifted
\* out of the ASCII range by the key.  A token is neither hex nor a number.
NoKey == 0
Keys == {1, 2}
CipherBase(key) == 256 * key
TokenHeader(key, len) == 100000 * key + len

\* cypher.encrypt
Encrypt(key, b) == <<TokenHeader(key, Len(b))>> \o [i \in 1..Len(b) |-> b[i] + CipherBase(key)]

\* cypher.decrypt succeeds on an untampered, whole token of the same key
DecryptOk(key, d) ==
    /\ Len(d) >= 1
    /\ d[1] = TokenHeader(key, Len(d) - 1)
    /\ \A i \in 2..Len(d) : d[i] >= CipherBase(key) /\ d[i] < CipherBase(key) + 256
Decrypt(key, d) == [i \in 1..(Len(d) - 1) |-> d[i + 1] - CipherBase(key)]

\* ------------------------------------------------------------------- state

VARIABLES
    limit,      \* self._limit: the constructor's limit minus the overhead
    now,        \* int(time.time())
    lastSeq,    \* greatest sequence number of the account history
    hist,       \* the distinguished operations of the history, oldest first
    ops,        \* operations on the ledger so far (bounds the behaviours)
    fills,      \* blocks of other operations so far (bounds the behaviours)
    bc,         \* the broadcast call (in progress, or the last one); base is
                \* the length of hist when it began, sent the chunk indices
                \* it has handed to custom_json
    f,          \* the fetch call; pages is the start of every read that succeeded
    marker      \* the last get_marker call

vars == <<limit, now, lastSeq, hist, ops, fills, bc, f, marker>>

Target == "c1"
Other == "c2"

\* __init__: the limit is accepted when 1024 <= limit <= 4096
LimitOk(l) == MinLimit <= l /\ l <= MaxLimit
LimitChoices == {MinLimit - 1, MinLimit}

\* length of the shortest text that broadcast cuts, under the smallest limit
LongLen == MinLimit - Overhead
TextOf(n) == [i \in 1..n |-> 97 + (i % 3)]

IdleBroadcast ==
    [pc |-> "idle", cid |-> Target, v |-> StrV(<<>>), key |-> NoKey, dtype |-> "str",
     data |-> <<>>, ts |-> 0, batches |-> 0, i |-> 0, s |-> 1, base |-> 0, sent |-> <<>>]

NoResult == [kind |-> "none", val |-> StrV(<<>>), map |-> <<>>]

IdleFetch ==
    [pc |-> "idle", cid |-> Target, key |-> NoKey, start |-> 0, strict |-> TRUE,
     latest |-> TRUE, page |-> 0, top |-> 0, versions |-> <<>>, order |-> <<>>,
     reads |-> 0, fails |-> 0, pages |-> <<>>, constructed |-> <<>>, result |-> NoResult,
     first |-> [set |-> FALSE, res |-> NoResult]]

NoMarker == [set |-> FALSE, s |-> 0, val |-> 0]

InitWith(tops) ==
    /\ limit \in {l - Overhead : l \in {x \in LimitChoices : LimitOk(x)}}
    /\ now = 1
    /\ lastSeq \in tops
    /\ hist = <<>>
    /\ ops = 0
    /\ fills = 0
    /\ bc = IdleBroadcast
    /\ f = IdleFetch
    /\ marker = NoMarker

\* a fresh account: its history holds the operation that created it
Init == InitWith({0})

\* --------------------------------------------------------------- the ledger

\* one operation of the history
Entry(seq, op, id, haadb, ts, batch, batches, dtype, data) ==
    [seq |-> seq, op |-> op, id |-> id, haadb |-> haadb, timestamp |-> ts,
     batch |-> batch, batches |-> batches, dtype |-> dtype, data |-> data]

\* time passes (the clock is read by the writes alone, and is left alone
\* once no write can follow)
Tick ==
    /\ now < MaxTime
    /\ ops < MaxOps
    /\ bc.pc # "sending"
    /\ f.pc = "idle"
    /\ now' = now + 1
    /\ UNCHANGED <<limit, lastSeq, hist, ops, fills, bc, f, marker>>

\* the account makes PageSize operations that are not custom_json
Filler ==
    /\ fills < MaxFills
    /\ bc.pc # "sending"
    /\ f.pc = "idle"
    /\ fills' = fills + 1
    /\ lastSeq' = lastSeq + PageSize
    /\ UNCHANGED <<limit, now, hist, ops, bc, f, marker>>

\* unrelated activity on the account: a transfer, and a custom_json that
\* another application writes under the same id, without the "haadb" field
ForeignAppend ==
    /\ ops < MaxOps
    /\ bc.pc # "sending"
    /\ f.pc = "idle"
    /\ ops' = ops + 1
    /\ lastSeq' = lastSeq + 2
    /\ hist' = hist \o <<Entry(lastSeq + 1, "transfer", Target, TRUE, now, <<>>, <<>>, "str", <<122>>),
                         Entry(lastSeq + 2, "custom_json", Target, FALSE, now, <<>>, <<>>, "str", <<122>>)>>
    /\ UNCHANGED <<limit, now, fills, bc, f, marker>>

\* a client that stores the descriptor under the key fetch reads, "batches",
\* writes chunk index of count of a text under the target id
DescribedAppend(index, count) ==
    /\ ops < MaxOps
    /\ bc.pc # "sending"
    /\ f.pc = "idle"
    /\ ops' = ops + 1
    /\ lastSeq' = lastSeq + 1
    /\ hist' = Append(hist, Entry(lastSeq + 1, "custom_json", Target, TRUE, now, <<>>,
                                  <<index, count>>, "str", <<119 + index>>))
    /\ UNCHANGED <<limit, now, fills, bc, f, marker>>

\* ---------------------------------------------------------------- broadcast

\* broadcast, lines 92-100: the text that is cut into chunks
Processed(v, key) ==
    LET raw == GetBytes(v)
        hexed == IF IsPlain(v) THEN raw ELSE Hexlify(raw)
    IN IF key # NoKey THEN Encrypt(key, hexed) ELSE hexed

\* broadcast, line 110
Batches(len, lim) == (len \div lim) + 1

\* broadcast up to the first append: encode, take the time, count the chunks
BroadcastStart(cid, v, key) ==
    /\ ops < MaxOps
    /\ bc.pc # "sending"
    /\ f.pc = "idle"
    /\ ops' = ops + 1
    /\ bc' = [pc |-> "sending", cid |-> cid, v |-> v, key |-> key, dtype |-> GetDtype(v),
              data |-> Processed(v, key), ts |-> now,
              batches |-> Batches(Len(Processed(v, key)), limit), i |-> 0, s |-> 1,
              base |-> Len(hist), sent |-> <<>>]
    /\ UNCHANGED <<limit, now, lastSeq, hist, fills, f, marker>>

\* the slice that starts one character late
ChunkFromS(data, s, i, lim) == PySlice(data, s, ((i + 1) * lim) - 1)

\* the slice that ends two characters late
ChunkWide(data, s, i, lim) == PySlice(data, s - 1, ((i + 1) * lim) + 1)

\* the chunk of one pass of the loop, lines 112 and 119
Chunk(data, s, i, lim) == PySlice(data, s - 1, ((i + 1) * lim) - 1)

\* the "batch" field with the index of range() as it is
BatchFieldFromZero(i, batches) == IF batches > 1 THEN <<i, batches>> ELSE <<>>

\* the "batch" field of one pass of the loop, lines 116-117
BatchField(i, batches) == IF batches > 1 THEN <<i + 1, batches>> ELSE <<>>

\* one pass of the loop: build the record and append it
BroadcastSend ==
    /\ bc.pc = "sending"
    /\ lastSeq' = lastSeq + 1
    /\ hist' = Append(hist, Entry(lastSeq + 1, "custom_json", bc.cid, TRUE, bc.ts,
                                  BatchField(bc.i, bc.batches), <<>>, bc.dtype,
                                  Chunk(bc.data, bc.s, bc.i, limit)))
    /\ bc' = [bc EXCEPT !.i = bc.i + 1, !.s = (bc.i + 1) * limit,
                        !.sent = Append(bc.sent, bc.i + 1),
                        !.pc = IF bc.i + 1 = bc.batches THEN "done" ELSE "sending"]
    /\ UNCHANGED <<limit, now, ops, fills, f, marker>>

\* custom_json raises, the exception is swallowed and the loop goes on
BroadcastFailSwallowed ==
    /\ bc.pc = "sending"
    /\ bc' = [bc EXCEPT !.i = bc.i + 1, !.s = (bc.i + 1) * limit,
                        !.sent = Append(bc.sent, bc.i + 1),
                        !.pc = IF bc.i + 1 = bc.batches THEN "done" ELSE "sending"]
    /\ UNCHANGED <<limit, now, lastSeq, hist, ops, fills, f, marker>>

\* custom_json raises: the exception leaves broadcast, nothing is appended
BroadcastFail ==
    /\ bc.pc = "sending"
    /\ bc' = [bc EXCEPT !.pc = "raised", !.sent = Append(bc.sent, bc.i + 1)]
    /\ UNCHANGED <<limit, now, lastSeq, hist, ops, fills, f, marker>>

\* -------------------------------------------------------------------- fetch

\* start validation without the test of the remainder
StartInvalidNoRemainder(start) == start < PageSize

\* fetch, lines 139-140: the start that raises HaaDBException
StartInvalid(start) == start < PageSize \/ (start % PageSize > 0)

\* get_account_history([account, start, 1000]): the page that ends at start,
\* or at the top of the history when start is -1
PageHi(page) == IF page = -1 THEN lastSeq ELSE Min(page, lastSeq)
PageLo(page) == Max(0, (IF page = -1 THEN lastSeq ELSE page) - PageSize + 1)
PageItems(page) == SelectSeq(hist, LAMBDA e : PageLo(page) <= e.seq /\ e.seq <= PageHi(page))

\* the filter without the test of the contract id
MatchesAnyId(item, cid) == item.op = "custom_json" /\ item.haadb

\* lines 156-163: the items that are folded
Matches(item, cid) == item.op = "custom_json" /\ item.id = cid /\ item.haadb

\* lines 165-167: the batch descriptor the scan derives
Descriptor(item) == IF item.batches # <<>> THEN item.batches ELSE <<1, 1>>

\* line 174: versions[ts]["data"][index] = chunk, the dict keeping its order
Put(data, index, chunk) ==
    IF \E k \in 1..Len(data) : data[k].index = index
    THEN [k \in 1..Len(data) |->
            IF data[k].index = index THEN [index |-> index, chunk |-> chunk] ELSE data[k]]
    ELSE Append(data, [index |-> index, chunk |-> chunk])

\* lines 164-174: one matching item folded into the buckets; st.order is the
\* order in which the timestamps entered the dict
FoldItem(st, item) ==
    LET ts == item.timestamp
        d == Descriptor(item)
        seen == ts \in DOMAIN st.versions
        bucket == IF seen THEN st.versions[ts]
                  ELSE [batches |-> d[2], dtype |-> item.dtype, data |-> <<>>]
        put == [bucket EXCEPT !.data = Put(bucket.data, d[1], item.data)]
    IN [versions |-> [t \in DOMAIN st.versions \cup {ts} |->
                         IF t = ts THEN put ELSE st.versions[t]],
        order |-> IF seen THEN st.order ELSE Append(st.order, ts)]

\* lines 153-174: the items of one page, in the order of the page
RECURSIVE Fold(_, _, _)
Fold(st, items, cid) ==
    IF items = <<>> THEN st
    ELSE Fold(IF Matches(Head(items), cid) THEN FoldItem(st, Head(items)) ELSE st,
              Tail(items), cid)

\* _construct, line 205: the chunks joined in the order of the dict
RECURSIVE Joined(_)
Joined(data) == IF data = <<>> THEN <<>> ELSE Head(data).chunk \o Joined(Tail(data))

\* _construct, line 213: the dtypes whose text is unhexlified
Unhexlified(dtype) == dtype \notin {"str", "int", "float"}

\* _construct, lines 213-223: the text decoded by its dtype
Decode(dtype, text) ==
    IF Unhexlified(dtype) /\ ~UnhexOk(text) THEN Err
    ELSE LET d == IF Unhexlified(dtype) THEN Unhexlify(text) ELSE text
         IN CASE dtype \in {"str", "object"} -> Ok(StrV(d))
              [] dtype = "int" -> ParseInt(d)
              [] dtype = "float" -> ParseFloat(d)
              [] OTHER -> LiteralEval(d)

\* _construct without the except clause: a failed decryption raises
ConstructNoFallback(chunks, key) ==
    IF chunks.data = <<>> THEN Ok(StrV(<<>>))
    ELSE IF key # NoKey
         THEN IF DecryptOk(key, Joined(chunks.data))
              THEN Decode(chunks.dtype, Decrypt(key, Joined(chunks.data)))
              ELSE Err
    ELSE Decode(chunks.dtype, Joined(chunks.data))

\* _construct
Construct(chunks, key) ==
    IF chunks.data = <<>> THEN Ok(StrV(<<>>))
    ELSE IF key # NoKey
         THEN IF DecryptOk(key, Joined(chunks.data))
              THEN Decode(chunks.dtype, Decrypt(key, Joined(chunks.data)))
              ELSE Ok(StrV(Joined(chunks.data)))
    ELSE Decode(chunks.dtype, Joined(chunks.data))

\* line 183: the buckets that are reconstructed
Survives(chunks, strict) == ~(strict /\ chunks.batches # Len(chunks.data))
Survivors(versions, strict) == {ts \in DOMAIN versions : Survives(versions[ts], strict)}

\* lines 181-185
Constructed(versions, strict, key) ==
    [ts \in Survivors(versions, strict) |-> Construct(versions[ts], key)]

\* lines 188-189: the timestamp whose value is returned
Chosen(order, constructed) == SetMax(DOMAIN constructed)

\* lines 181-192: what the call returns, or that _construct raised
Returned(order, constructed, latest) ==
    IF \E ts \in DOMAIN constructed : ~constructed[ts].ok THEN [NoResult EXCEPT !.kind = "raised"]
    ELSE IF latest
         THEN [NoResult EXCEPT !.kind = "value",
                               !.val = IF DOMAIN constructed # {}
                                       THEN constructed[Chosen(order, constructed)].val
                                       ELSE StrV(<<>>)]
    ELSE [NoResult EXCEPT !.kind = "map",
                          !.map = [ts \in DOMAIN constructed |-> constructed[ts].val]]

\* fetch up to the first read: the validation of start
FetchCall(cid, key, start, strict, latest) ==
    /\ f.pc = "idle"
    /\ bc.pc # "sending"
    /\ f' = [IdleFetch EXCEPT !.pc = IF StartInvalid(start) THEN "invalid" ELSE "reading",
                              !.cid = cid, !.key = key, !.start = start,
                              !.strict = strict, !.latest = latest, !.page = -1]
    /\ UNCHANGED <<limit, now, lastSeq, hist, ops, fills, bc, marker>>

\* lines 175-177: the page boundary and the top after a page was folded
NextPage(page, top, start) == IF top = 0 THEN start ELSE page + PageSize
NextTop(page, top) == IF top = 0 THEN Max(PageSize, PageHi(page)) + PageSize ELSE top

\* one pass of the loop whose read succeeds; after the last one, the rest of fetch
FetchReadOk ==
    /\ f.pc = "reading"
    /\ LET st == Fold([versions |-> f.versions, order |-> f.order], PageItems(f.page), f.cid)
           page == NextPage(f.page, f.top, f.start)
           top == NextTop(f.page, f.top)
           cons == Constructed(st.versions, f.strict, f.key)
       IN f' = IF page > top
               THEN [f EXCEPT !.pc = "done", !.page = page, !.top = top,
                              !.versions = st.versions, !.order = st.order,
                              !.reads = f.reads + 1, !.pages = Append(f.pages, f.page),
                              !.constructed = cons,
                              !.result = Returned(st.order, cons, f.latest)]
               ELSE [f EXCEPT !.page = page, !.top = top, !.versions = st.versions,
                              !.order = st.order, !.reads = f.reads + 1,
                              !.pages = Append(f.pages, f.page)]
    /\ UNCHANGED <<limit, now, lastSeq, hist, ops, fills, bc, marker>>

\* lines 149-151: the page boundary after a read that raised
FailedPage(page) == page + PageSize

\* one pass of the loop whose read raises
FetchReadFail ==
    /\ f.pc = "reading"
    /\ f.fails < MaxFails
    /\ f' = [f EXCEPT !.page = FailedPage(f.page), !.fails = f.fails + 1]
    /\ UNCHANGED <<limit, now, lastSeq, hist, ops, fills, bc, marker>>

\* the same call again, over the same history
ReFetch ==
    /\ f.pc = "done"
    /\ ~f.first.set
    /\ f' = [IdleFetch EXCEPT !.pc = "reading", !.cid = f.cid, !.key = f.key,
                              !.start = f.start, !.strict = f.strict,
                              !.latest = f.latest, !.page = -1,
                              !.first = [set |-> TRUE, res |-> f.result]]
    /\ UNCHANGED <<limit, now, lastSeq, hist, ops, fills, bc, marker>>

\* the caller is done with the result
FetchReturn ==
    /\ f.pc \in {"done", "invalid"}
    /\ f' = IdleFetch
    /\ UNCHANGED <<limit, now, lastSeq, hist, ops, fills, bc, marker>>

\* --------------------------------------------------------------- get_marker

\* the marker without the minimum
MarkerUnclamped(s) == ((s \div PageSize) * PageSize) - PageSize

\* line 71
Marker(s) == Max(((s \div PageSize) * PageSize) - PageSize, PageSize)

\* results[0][0]: the first of the last MarkerPage items of the history
ReportedSeq == Max(0, lastSeq - MarkerPage + 1)

GetMarker ==
    /\ f.pc = "idle"
    /\ bc.pc # "sending"
    /\ marker' = [set |-> TRUE, s |-> ReportedSeq, val |-> Marker(ReportedSeq)]
    /\ UNCHANGED <<limit, now, lastSeq, hist, ops, fills, bc, f>>

\* ----------------------------------------------------------- specifications

\* The store: values of every shape, short and long, written with and without
\* a key, appends that raise, and fetches of every policy; no read fails.
StoreValues == {StrV(TextOf(LongLen)), StrV(<<>>), IntV(42), ListV(<<1>>), BoolV(1)}

StoreBroadcast == \E v \in StoreValues, key \in {NoKey, 1} : BroadcastStart(Target, v, key)

StoreFetch ==
    \E key \in {NoKey} \cup Keys, strict \in BOOLEAN, latest \in BOOLEAN :
        FetchCall(Target, key, PageSize, strict, latest)

Next ==
    \/ Tick
    \/ Filler
    \/ StoreBroadcast
    \/ BroadcastSend
    \/ BroadcastFail
    \/ StoreFetch
    \/ FetchReadOk
    \/ FetchReturn

Spec == Init /\ [][Next]_vars

\* The read path: short values under two contract ids, the records of other
\* applications and of a client that writes "batches", and fetches of every
\* policy; no append raises and no read fails.
ReadBroadcast ==
    \/ \E v \in {IntV(42), ListV(<<1>>)}, key \in {NoKey, 1} : BroadcastStart(Target, v, key)
    \/ BroadcastStart(Other, IntV(7), NoKey)

ReadDescribed == \E index \in 1..2 : DescribedAppend(index, 2)

NextRead ==
    \/ Tick
    \/ Filler
    \/ ForeignAppend
    \/ ReadDescribed
    \/ ReadBroadcast
    \/ BroadcastSend
    \/ StoreFetch
    \/ FetchReadOk
    \/ FetchReturn

SpecRead == Init /\ [][NextRead]_vars

\* The scan: short values under one contract id, reads of the history that
\* fail, and the same fetch made twice over one history.
ScanBroadcast == \E v \in {IntV(42), IntV(7)} : BroadcastStart(Target, v, NoKey)

ScanFetch ==
    \E start \in {PageSize, 2 * PageSize}, latest \in BOOLEAN :
        FetchCall(Target, NoKey, start, TRUE, latest)

NextScan ==
    \/ Tick
    \/ Filler
    \/ ScanBroadcast
    \/ BroadcastSend
    \/ ScanFetch
    \/ FetchReadOk
    \/ FetchReadFail
    \/ ReFetch
    \/ FetchReturn

SpecScan == Init /\ [][NextScan]_vars

\* The validation of start: every start from 0 to MaxStart, on a fresh account.
StartFetch == \E start \in 0..MaxStart : FetchCall(Target, NoKey, start, TRUE, TRUE)

NextStart ==
    \/ StartFetch
    \/ FetchReadOk
    \/ FetchReadFail
    \/ FetchReturn

SpecStart == Init /\ [][NextStart]_vars

\* The marker: accounts whose history ends at any of 0..MaxTop, get_marker,
\* and a fetch that starts at the marker.
MarkerFetch == marker.set /\ FetchCall(Target, NoKey, marker.val, TRUE, TRUE)

NextMarker ==
    \/ GetMarker
    \/ MarkerFetch
    \/ FetchReadOk
    \/ FetchReturn

SpecMarker == InitWith(0..MaxTop) /\ [][NextMarker]_vars

\* The write path: texts around the lengths at which broadcast cuts, under
\* every limit at and next to the ends of the accepted range, the other types,
\* with and without a key, appends that raise, and a clock that runs while
\* the chunks are sent.
WriteLimits == {MinLimit - 1, MinLimit, MinLimit + 1, MaxLimit, MaxLimit + 1}

InitWrite ==
    /\ limit \in {l - Overhead : l \in {x \in WriteLimits : LimitOk(x)}}
    /\ now = 1
    /\ lastSeq = 0
    /\ hist = <<>>
    /\ ops = 0
    /\ fills = 0
    /\ bc = IdleBroadcast
    /\ f = IdleFetch
    /\ marker = NoMarker

WriteLengths == {0, LongLen - 1, LongLen, (2 * LongLen) - 1}
WriteValues ==
    {StrV(TextOf(n)) : n \in WriteLengths} \cup {IntV(42), BoolV(1), ListV(<<1>>), ObjectV(<<120>>)}

WriteBroadcast == \E v \in WriteValues, key \in {NoKey, 1} : BroadcastStart(Target, v, key)

\* int(time.time()) moves on, also between two appends of one call
WriteClock ==
    /\ now < MaxTime
    /\ bc.pc = "sending"
    /\ now' = now + 1
    /\ UNCHANGED <<limit, lastSeq, hist, ops, fills, bc, f, marker>>

NextWrite ==
    \/ WriteClock
    \/ WriteBroadcast
    \/ BroadcastSend
    \/ BroadcastFail

SpecWrite == InitWrite /\ [][NextWrite]_vars

\* The scan under a gateway that serves every read in the end.
SpecScanFair == SpecScan /\ WF_vars(FetchReadOk)

\* ------------------------------------------------------------------- claims

\* the operations of the history that fetch(cid) is to fold
Matching(cid) == {j \in 1..Len(hist) : hist[j].op = "custom_json" /\ hist[j].id = cid /\ hist[j].haadb}

\* the call in bc is complete and nothing else was written at or after its time
LastWriteOnTop ==
    /\ bc.pc = "done"
    /\ Cardinality({j \in Matching(bc.cid) : hist[j].timestamp >= bc.ts}) = bc.batches

\* C1: once broadcast(cid, v, key) has appended all its chunks, fetch(cid, key,
\* strict=True, latest=True) returns v, whatever the length of the payload, with
\* and without a key.
C1_RoundTrip ==
    (f.pc = "done" /\ f.cid = bc.cid /\ f.key = bc.key /\ f.strict /\ f.latest /\ LastWriteOnTop)
        => f.result = [NoResult EXCEPT !.kind = "value", !.val = bc.v]

\* the records of the version of cid written at ts; the version is incomplete
\* when they are the records of one write that declared N chunks, and the
\* ledger holds fewer than N of its chunk indices
VersionRecords(cid, ts) == {j \in Matching(cid) : hist[j].timestamp = ts}
Incomplete(cid, ts) ==
    /\ \A j \in VersionRecords(cid, ts) : hist[j].batch # <<>>
    /\ \A j, k \in VersionRecords(cid, ts) : hist[j].batch[2] = hist[k].batch[2]
    /\ \E j \in VersionRecords(cid, ts) :
          Cardinality({hist[k].batch[1] : k \in VersionRecords(cid, ts)}) < hist[j].batch[2]

\* C2: a version of which the ledger holds fewer chunks than its writer declared
\* is left out of the result when strict=True and is in it when strict=False.
C2_StrictCompleteness ==
    f.pc = "done" =>
        \A ts \in DOMAIN f.versions :
            Incomplete(f.cid, ts) => (f.strict <=> ts \notin DOMAIN f.constructed)

\* the buckets that pass the completeness policy of the call in f
Surviving == {ts \in DOMAIN f.versions :
                 ~f.strict \/ f.versions[ts].batches = Len(f.versions[ts].data)}

\* the surviving version with the greatest timestamp
Newest == SetMax(Surviving)

\* C3: fetch(latest=True) returns the value of the surviving version with the
\* greatest timestamp, whatever the order in which the scan met the versions,
\* and "" when no version survives.  (Stated for the calls in which that
\* version can be reconstructed: its value is then what the claim promises.)
C3_LatestWins ==
    (f.pc = "done" /\ f.latest) =>
        IF Surviving = {} THEN f.result = [NoResult EXCEPT !.kind = "value"]
        ELSE Construct(f.versions[Newest], f.key).ok =>
                f.result = [NoResult EXCEPT !.kind = "value",
                                            !.val = Construct(f.versions[Newest], f.key).val]

\* ceil(a / b)
CeilDiv(a, b) == (a + b - 1) \div b

\* C4: one broadcast of an encoded payload of length L under the effective limit
\* M appends exactly max(1, ceil(L/M)) records.
C4_ChunkCount ==
    bc.pc = "done" => bc.i = Max(1, CeilDiv(Len(bc.data), limit))

\* C5: a read that fails is made again for the same page, so every matching
\* record of the pages from start to the top of the history is folded before
\* fetch returns.
C5_RetryInPlace ==
    f.pc = "done" =>
        \A j \in Matching(f.cid) :
            hist[j].seq > f.start - PageSize => hist[j].timestamp \in DOMAIN f.versions

C7_Isolation ==
    f.pc \in {"reading", "done"} =>
        \A ts \in DOMAIN f.versions :
            /\ \E j \in Matching(f.cid) :
                  hist[j].timestamp = ts /\ hist[j].dtype = f.versions[ts].dtype
            /\ \A k \in 1..Len(f.versions[ts].data) :
                  \E j \in Matching(f.cid) :
                      hist[j].timestamp = ts /\ hist[j].data = f.versions[ts].data[k].chunk

\* C7 happens: the scan is over, a bucket was made, and the history holds a
\* record of another contract id written in the same second
C7_Witness ==
    /\ f.pc = "done"
    /\ \E ts \in DOMAIN f.versions :
          \E j \in 1..Len(hist) :
              hist[j].id # f.cid /\ hist[j].haadb /\ hist[j].timestamp = ts
                  /\ hist[j].seq > f.start - PageSize

\* C8: fetch raises, before any read of the history, exactly when start is
\* below 1000 or no multiple of 1000; otherwise the scan runs.
C8_StartValidation ==
    f.pc # "idle" =>
        /\ f.pc = "invalid" <=> (f.start < 1000 \/ f.start % 1000 # 0)
        /\ f.pc = "invalid" => (f.reads = 0 /\ f.fails = 0)
        /\ f.pc = "done" => f.reads >= 2

\* C8 happens: start=999 was refused
C8_Witness == f.pc = "invalid" /\ f.start = 999 /\ f.reads = 0

\* the merged text of the bucket at ts of the call in f
Merged(ts) == Joined(f.versions[ts].data)

\* C9: with a key, a version whose decryption fails takes the raw merged text as
\* its value and does not make fetch raise (fetch raises exactly when a version
\* that did decrypt cannot be decoded), and every other surviving version is
\* reconstructed in the same fetch.
C9_DecryptFallback ==
    (f.pc = "done" /\ f.key # NoKey) =>
        /\ DOMAIN f.constructed = Surviving
        /\ \A ts \in Surviving :
              ~DecryptOk(f.key, Merged(ts)) => f.constructed[ts] = Ok(StrV(Merged(ts)))
        /\ f.result.kind = "raised" <=>
              \E ts \in Surviving :
                  /\ DecryptOk(f.key, Merged(ts))
                  /\ ~Decode(f.versions[ts].dtype, Decrypt(f.key, Merged(ts))).ok
        /\ f.result.kind = "map" =>
              \A ts \in Surviving :
                  f.result.map[ts] = IF DecryptOk(f.key, Merged(ts))
                                     THEN Decode(f.versions[ts].dtype, Decrypt(f.key, Merged(ts))).val
                                     ELSE StrV(Merged(ts))

\* C9 happens: of two versions, one decrypts and one does not, and fetch
\* returned both
C9_Witness ==
    /\ f.pc = "done" /\ f.key # NoKey /\ f.result.kind = "map"
    /\ \E ts \in Surviving : ~DecryptOk(f.key, Merged(ts))
    /\ \E ts \in Surviving : DecryptOk(f.key, Merged(ts))

\* C10: get_marker returns max(floor(s/1000)*1000 - 1000, 1000) for the sequence
\* number s the gateway reports; that is a multiple of 1000, at least 1000, and
\* fetch accepts it as start.
C10_Marker ==
    marker.set =>
        /\ marker.val = Max((marker.s - (marker.s % 1000)) - 1000, 1000)
        /\ marker.val % 1000 = 0
        /\ marker.val >= 1000
        /\ (f.pc # "idle" /\ f.start = marker.val) => f.pc # "invalid"

\* C10 happens: a marker above the minimum was computed and a fetch from it
\* ran to its end
C10_Witness ==
    /\ marker.set /\ marker.s >= 3000 /\ marker.val = 2000
    /\ f.pc = "done" /\ f.start = marker.val

\* the chunk indices a bucket holds, and the chunk it holds at an index
Indices(data) == {data[k].index : k \in 1..Len(data)}
ChunkAt(data, index) == data[CHOOSE k \in 1..Len(data) : data[k].index = index].chunk

\* C11: from a record that broadcast appended as chunk i of N, N > 1, the scan
\* derives the descriptor [i, N]; the bucket of a timestamp at which one such
\* write stands alone expects N chunks and holds the chunk at index i.
C11_DescriptorAgreement ==
    f.pc = "done" =>
        \A j \in Matching(f.cid) :
            (hist[j].batch # <<>> /\ hist[j].seq > f.start - PageSize) =>
                /\ Descriptor(hist[j]) = hist[j].batch
                /\ (\A k \in VersionRecords(f.cid, hist[j].timestamp) :
                        hist[k].batch # <<>> /\ hist[k].batch[2] = hist[j].batch[2])
                     => /\ f.versions[hist[j].timestamp].batches = hist[j].batch[2]
                        /\ hist[j].batch[1] \in Indices(f.versions[hist[j].timestamp].data)

\* the chunks of a bucket in ascending chunk index
RECURSIVE Ascending(_, _)
Ascending(data, left) ==
    IF left = {} THEN <<>>
    ELSE LET least == CHOOSE x \in left : \A y \in left : x <= y
         IN <<[index |-> least, chunk |-> ChunkAt(data, least)]>> \o Ascending(data, left \ {least})

\* C12: the value of a bucket that passes the completeness policy is
\* reconstructed from its chunks joined in ascending chunk index, whatever the
\* order in which the scan met them.
C12_MergeOrder ==
    f.pc = "done" =>
        \A ts \in Surviving :
            f.constructed[ts] =
                Construct([f.versions[ts] EXCEPT !.data = Ascending(@, Indices(@))], f.key)

\* the k-th record appended by the call in bc
CallRecord(k) == hist[bc.base + k]

\* C13: the records appended by one broadcast carry one timestamp and one dtype;
\* when the write has N > 1 chunks the k-th record carries batch=[k, N], and when
\* N = 1 the one record carries no batch field; the complete write has N records.
C13_VersionKey ==
    /\ \A k \in 1..bc.i :
          /\ CallRecord(k).timestamp = CallRecord(1).timestamp
          /\ CallRecord(k).dtype = CallRecord(1).dtype
          /\ CallRecord(k).dtype = GetDtype(bc.v)
          /\ bc.batches > 1 => CallRecord(k).batch = <<k, bc.batches>>
          /\ bc.batches = 1 => CallRecord(k).batch = <<>>
    /\ bc.pc = "done" => bc.i = bc.batches

\* C13 happens: a write of three chunks is complete, and the clock moved while
\* it was under way
C13_Witness ==
    bc.pc = "done" /\ bc.batches = 3 /\ bc.i = 3 /\ now > bc.ts

\* C14: the constructor accepted a limit from 1024 to 4096, the data of every
\* record broadcast appended is no longer than that limit minus 512, and
\* 1 <= i <= N for its batch [i, N].
C14_ChunkBound ==
    /\ MinLimit <= limit + Overhead /\ limit + Overhead <= MaxLimit
    /\ \A j \in 1..Len(hist) :
          /\ Len(hist[j].data) <= limit
          /\ hist[j].batch # <<>> => (1 <= hist[j].batch[1] /\ hist[j].batch[1] <= hist[j].batch[2])

\* C14 happens: a record holds a chunk as long as the limit, and it is the
\* last of its write
C14_Witness ==
    \E j \in 1..Len(hist) :
        Len(hist[j].data) = limit /\ hist[j].batch # <<>> /\ hist[j].batch[1] = hist[j].batch[2]

\* C15: the chunks of one broadcast are handed to custom_json one at a time, in
\* ascending index, each once: the indices handed over are always 1..k; all of
\* them are on the ledger but the one whose append raised, and after that one
\* the call hands over nothing more.
C15_Sequential ==
    /\ [](/\ \A j \in 1..Len(bc.sent) : bc.sent[j] = j
          /\ Len(bc.sent) <= bc.batches
          /\ bc.pc \in {"sending", "done"} => Len(hist) - bc.base = Len(bc.sent)
          /\ bc.pc = "raised" => Len(hist) - bc.base = Len(bc.sent) - 1
          /\ bc.batches > 1 =>
                \A k \in 1..(Len(hist) - bc.base) : CallRecord(k).batch[1] = bc.sent[k])
    /\ [][/\ bc'.sent # bc.sent =>
                (bc'.sent = <<>> \/ bc'.sent = Append(bc.sent, Len(bc.sent) + 1))
          /\ bc.pc = "raised" => (bc' = bc \/ (bc'.pc = "sending" /\ bc'.sent = <<>>))]_vars

\* C15 happens: the append of chunk 2 of 3 raised
C15_Witness ==
    bc.pc = "raised" /\ bc.batches = 3 /\ bc.sent = <<1, 2>> /\ Len(hist) - bc.base = 1

\* the data of the first k records of the call in bc, joined
RECURSIVE CallData(_)
CallData(k) == IF k = 0 THEN <<>> ELSE CallData(k - 1) \o CallRecord(k).data

\* C17: the data of the records of one broadcast, joined in ascending chunk
\* index, are the encoded payload, character by character (while the call is
\* under way: its beginning), and no chunk of a payload that is not empty is
\* empty.
C17_Lossless ==
    /\ CallData(bc.i) = SubSeq(bc.data, 1, Len(CallData(bc.i)))
    /\ bc.pc = "done" => CallData(bc.i) = Processed(bc.v, bc.key)
    /\ bc.data # <<>> => \A k \in 1..bc.i : CallRecord(k).data # <<>>

\* C17 happens: a payload of twice the limit was cut into chunks of one
\* character less than the limit, the limit, and one character
C17_Witness ==
    /\ bc.pc = "done" /\ bc.i = 3 /\ Len(bc.data) = 2 * limit
    /\ Len(CallRecord(1).data) = limit - 1
    /\ Len(CallRecord(2).data) = limit
    /\ Len(CallRecord(3).data) = 1

\* the matching records in the order in which the scan of the call in f met
\* them: page by page, a record as often as it was read
RECURSIVE Scanned(_)
Scanned(k) ==
    IF k = 0 THEN <<>>
    ELSE Scanned(k - 1) \o SelectSeq(PageItems(f.pages[k]), LAMBDA e : Matches(e, f.cid))

\* those of them that carry the timestamp ts, and those of chunk index `index`
SeenAt(ts) == SelectSeq(Scanned(Len(f.pages)), LAMBDA e : e.timestamp = ts)
SeenAtIndex(ts, index) == SelectSeq(SeenAt(ts), LAMBDA e : Descriptor(e)[1] = index)

\* C16 (first and last seen): the dtype and the expected count of a bucket are
\* those of the first record the scan met for its timestamp, and the chunk it
\* holds at an index is that of the last record met with that index.
BucketFirstLast ==
    f.pc \in {"reading", "done"} =>
        \A ts \in DOMAIN f.versions :
            /\ f.versions[ts].dtype = SeenAt(ts)[1].dtype
            /\ f.versions[ts].batches = Descriptor(SeenAt(ts)[1])[2]
            /\ \A index \in Indices(f.versions[ts].data) :
                  ChunkAt(f.versions[ts].data, index) =
                      SeenAtIndex(ts, index)[Len(SeenAtIndex(ts, index))].data

\* C16: at every step of a scan, every bucket has the dtype and the expected
\* count of the first record met for its timestamp, holds chunk indices within
\* 1..expected count only, and holds at an index the chunk met last.
C16_BucketInvariant ==
    /\ BucketFirstLast
    /\ f.pc \in {"reading", "done"} =>
          \A ts \in DOMAIN f.versions :
              Indices(f.versions[ts].data) \subseteq 1..f.versions[ts].batches

\* C18: broadcast hex-encodes the payload of a value exactly when _construct
\* unhexlifies the payloads that carry the dtype broadcast recorded for it.
C18_HexAgreement ==
    bc.pc # "idle" => (~IsPlain(bc.v) <=> Unhexlified(bc.dtype))

\* the reads of a scan that the claim describes: the most recent page, then
\* the pages from start upward in steps of PageSize, the last boundary the
\* first one above the top of the history plus PageSize
ScanAsDescribed ==
    /\ Len(f.pages) >= 1
    /\ f.pages[1] = -1
    /\ \A k \in 2..Len(f.pages) :
          f.pages[k] = f.start + (PageSize * (k - 2)) /\ f.pages[k] <= f.top
    /\ f.top = Max(PageSize, lastSeq) + PageSize
    /\ f.start + (PageSize * (Len(f.pages) - 1)) > f.top

\* the scan ends when reads stop failing
FetchTerminates == (f.pc = "reading") ~> (f.pc = "done")

\* C19: when only finitely many reads fail, every fetch ends, and it has read
\* the most recent page once and then the pages from start upward in steps of
\* 1000, up to the first boundary above the greatest sequence number of the most
\* recent page plus 1000.
C19_Termination ==
    /\ FetchTerminates
    /\ [](f.pc = "done" => ScanAsDescribed)

====
